---- MODULE Spec2Model ----
(***************************************************************************)
(* Model of app.py: a Flask service over one PostgreSQL table,             *)
(* sensor_data.  Flask's development server handles requests in threads,   *)
(* so every handler is a small process: it acquires its own connection,   *)
(* runs one statement, maps the result and closes the connection.  The     *)
(* store is modelled by the table (rows, in heap order), the SERIAL        *)
(* sequence (seq), the store's clock and its availability.                 *)
(*                                                                         *)
(* Numeric measurements are integers counting halves (43 is 21.5), so      *)
(* every value and every tie of round(x, 2) is exact in binary floating    *)
(* point for the row counts reached here.                                  *)
(***************************************************************************)
EXTENDS Integers, Sequences, FiniteSets, TLC

\* ---- bounds of the model
MaxInserts == 2

Workers == {"w1", "w2"}
Main == "main"

\* ---- values: every value is a record [t, n, d, s] so that any two compare;
\* a number is n/d (a measurement counts halves, a rounded mean hundredths)
None == [t |-> "null", n |-> 0, d |-> 1, s |-> ""]
Absent == [t |-> "absent", n |-> 0, d |-> 1, s |-> ""]
Num(x) == [t |-> "num", n |-> x, d |-> 2, s |-> ""]
Str(x) == [t |-> "str", n |-> 0, d |-> 1, s |-> x]
Ts(x) == [t |-> "ts", n |-> x, d |-> 1, s |-> ""]

\* datetime.isoformat(): a string rendering of the point in time
isoformat(v) == [t |-> "iso", n |-> v.n, d |-> 1, s |-> ""]

\* LIMIT 10 of the latest query
LatestLimit == 10

Min(a, b) == IF a < b THEN a ELSE b

\* ---- request bodies
Obj(te, hu, pr, se) ==
    [kind |-> "object", temperature |-> te, humidity |-> hu, pressure |-> pr, sensor_id |-> se]
NonObj(k) ==
    [kind |-> k, temperature |-> Absent, humidity |-> Absent, pressure |-> Absent, sensor_id |-> Absent]

EmptyBody == Obj(Absent, Absent, Absent, Absent)
FullBody == Obj(Num(0), Num(80), Num(2027), Str("s1"))
BadBody == Obj(Str("abc"), Absent, Absent, Str("s2"))
NoBody == NonObj("none")

Bodies ==
    {EmptyBody, FullBody, BadBody, NonObj("missing"), NonObj("malformed"), NonObj("array")}

\* ---- the program's state
VARIABLES
    boot,        \* "start" until create_sample_table has run, then "done"
    dbUp,        \* the store accepts connections
    tableExists, \* sensor_data exists in the store
    rows,        \* committed rows of sensor_data, in heap order
    seq,         \* last value of the SERIAL sequence of sensor_data.id
    clock,       \* the store's clock
    pc,          \* per worker thread: position in insert_telemetry, or "idle"
    conn,        \* per worker and for main: the connection it holds, "open" or "lost"
                 \* (open on the client, dropped by the store), or "none"
    tx,          \* per worker: the request and the transaction of its connection
    resp,        \* the response returned by the step just taken, NoResp if none
    returned,    \* history: the ids of the successful insert responses returned so far
    lastIns      \* history: what the last successful insert sent and got back

vars ==
    <<boot, dbUp, tableExists, rows, seq, clock, pc, conn, tx, resp, returned, lastIns>>

NoArgs == [temperature |-> None, humidity |-> None, pressure |-> None, sensor_id |-> None]
NoRow ==
    [id |-> 0, timestamp |-> None, temperature |-> None, humidity |-> None,
     pressure |-> None, sensor_id |-> None]
NoTx == [body |-> NoBody, ts |-> None, seen |-> 0, before |-> {}, args |-> NoArgs, row |-> NoRow]
NoResp == [kind |-> "none", status |-> 0, error |-> "", fault |-> "", body |-> NoBody]
NoIns == NoRow

Init ==
    /\ boot = "start"
    /\ dbUp \in BOOLEAN
    /\ tableExists \in BOOLEAN
    /\ rows = <<>>
    /\ seq = 0
    /\ clock = 0
    /\ pc = [p \in Workers |-> "idle"]
    /\ conn = [p \in Workers \cup {Main} |-> "none"]
    /\ tx = [p \in Workers |-> NoTx]
    /\ resp = NoResp
    /\ returned = {}
    /\ lastIns = NoIns

\* ---- Storage Connector
\* psycopg2.connect: a connection, or None when the store refuses
get_db_connection(up) == IF up THEN "open" ELSE "none"

\* a variant that closes at the end of the try body and of the except clause
\* only, so anything that is no psycopg2.Error skips it
FinallyMissedOnFault(outcome) == IF outcome = "fault" THEN "open" ELSE "none"

\* the finally clause of every handler: conn.close(), whatever the outcome
\* ("ok", "dberror" for a caught psycopg2.Error, "fault" for anything else);
\* the owner then holds no open connection
Finally(outcome) == "none"

\* a statement on connection c raises psycopg2.Error when the store dropped the
\* connection or the table is missing
StatementFails(c, exists) == c = "lost" \/ ~exists

\* ---- responses
\* a variant that returns the error body without the status code
ConnectionFailedNoStatus(kind) ==
    [kind |-> kind, status |-> 200, error |-> "Database connection failed", fault |-> "",
     cause |-> "connect", queries |-> 0]

ConnectionFailed(kind) ==
    [kind |-> kind, status |-> 500, error |-> "Database connection failed", fault |-> "",
     cause |-> "connect", queries |-> 0]

QueryFailed(kind, msg, n) ==
    [kind |-> kind, status |-> 500, error |-> msg, fault |-> "",
     cause |-> "query", queries |-> n]

\* an exception that is no psycopg2.Error leaves the handler: werkzeug answers an
\* HTTPException with its own code, Flask answers anything else with 500
Escaped(kind, exc) ==
    [kind |-> kind,
     status |-> CASE exc = "BadRequest" -> 400
                  [] exc = "UnsupportedMediaType" -> 415
                  [] OTHER -> 500,
     error |-> "", fault |-> exc, cause |-> "request", queries |-> 0]

\* ---- request parsing
\* request.get_json(): the parsed body, or an HTTPException.  A request with no
\* JSON body gives None in Flask before 2.1 (legacy) and 415 from 2.1 on.
get_json(b, legacy) ==
    CASE b.kind = "object" -> [raise |-> "", data |-> "dict"]
      [] b.kind = "array" -> [raise |-> "", data |-> "list"]
      [] b.kind = "malformed" -> [raise |-> "BadRequest", data |-> ""]
      [] OTHER -> IF legacy THEN [raise |-> "", data |-> "None"]
                  ELSE [raise |-> "UnsupportedMediaType", data |-> ""]

\* a variant that drops the default: data.get(key)
dict_get_no_default(b, key, default) == IF b[key].t = "absent" THEN None ELSE b[key]

\* dict.get(key, default)
dict_get(b, key, default) == IF b[key].t = "absent" THEN default ELSE b[key]

\* the parameters of the INSERT
InsertArgs(b) ==
    [temperature |-> dict_get(b, "temperature", None),
     humidity |-> dict_get(b, "humidity", None),
     pressure |-> dict_get(b, "pressure", None),
     sensor_id |-> dict_get(b, "sensor_id", Str("default"))]

\* ---- the store
\* the FLOAT columns accept a number or NULL
ColumnTypesOk(a) ==
    \A k \in {"temperature", "humidity", "pressure"} : a[k].t \in {"num", "null"}

\* a variant whose readings run backwards
CurrentTimestampBackwards(c) == Ts(0 - c)

\* DEFAULT CURRENT_TIMESTAMP: the start time of the transaction
CurrentTimestamp(c) == Ts(c)

\* a variant that hands the first value out again
NextValStuck(s) == IF s = 0 THEN 1 ELSE s

\* SERIAL: nextval of the sequence
NextVal(s) == s + 1

\* the row the INSERT builds: id and timestamp from the column defaults
NewRow(id, ts, a) ==
    [id |-> id, timestamp |-> ts, temperature |-> a.temperature, humidity |-> a.humidity,
     pressure |-> a.pressure, sensor_id |-> a.sensor_id]

\* conn.commit(): the row becomes part of the table
Commit(rs, r) == Append(rs, r)

\* a variant in which the row survives the failed commit (an autocommit connection)
RollbackKeepsRow(rs, r) == Append(rs, r)

\* conn.close() without commit: the transaction is discarded
Rollback(rs, r) == rs

\* ---- Schema Bootstrap: create_sample_table, run once before the listener
create_sample_table ==
    /\ boot = "start"
    /\ boot' = "done"
    /\ LET c == get_db_connection(dbUp) IN
       IF c = "none"
       THEN UNCHANGED <<tableExists, conn>>
       ELSE \E lost \in BOOLEAN :
              /\ tableExists' = (tableExists \/ ~lost)
              /\ conn' = [conn EXCEPT ![Main] = Finally(IF lost THEN "dberror" ELSE "ok")]
    /\ resp' = NoResp
    /\ UNCHANGED <<dbUp, rows, seq, clock, pc, tx, returned, lastIns>>

\* ---- GET /
home(p) ==
    /\ boot = "done"
    /\ pc[p] = "idle"
    /\ resp' = [kind |-> "health", status |-> 200, error |-> "", fault |-> "",
                message |-> "Telemetry API is running", state |-> "healthy",
                timestamp |-> isoformat(Ts(clock)), storeUp |-> dbUp, body |-> NoBody]
    /\ UNCHANGED <<boot, dbUp, tableExists, rows, seq, clock, pc, conn, tx,
                   returned, lastIns>>

\* the orders the store may give rows of equal timestamp: by heap position,
\* first or last
TieBreaks == {"low", "high"}

\* a read handler from its first line to its finally clause: acquire a connection
\* or answer 500, run the one SELECT (the store may drop the connection before
\* it), answer, close
\* (answer[tb] is the response when the store orders equal timestamps by tb)
ReadHandler(p, kind, answer) ==
    /\ boot = "done"
    /\ pc[p] = "idle"
    /\ LET c == get_db_connection(dbUp) IN
       IF c = "none"
       THEN /\ resp' = [body |-> NoBody] @@ ConnectionFailed(kind)
            /\ conn' = [conn EXCEPT ![p] = c]
       ELSE \E lost \in BOOLEAN, tb \in TieBreaks :
              IF StatementFails(IF lost THEN "lost" ELSE c, tableExists)
              THEN /\ resp' = [body |-> NoBody] @@ QueryFailed(kind, "Database query failed", 1)
                   /\ conn' = [conn EXCEPT ![p] = Finally("dberror")]
              ELSE /\ resp' = [body |-> NoBody] @@ answer[tb]
                   /\ conn' = [conn EXCEPT ![p] = Finally("ok")]
    /\ UNCHANGED <<boot, dbUp, tableExists, rows, seq, clock, pc, tx, returned, lastIns>>

\* ---- GET /api/telemetry/latest
\* ORDER BY timestamp DESC: rows with equal timestamps come in an order the store
\* chooses (tb: by heap position, first or last)
RECURSIVE OrderByTimestampDesc(_, _)
OrderByTimestampDesc(rs, tb) ==
    IF rs = <<>> THEN <<>>
    ELSE LET i == CHOOSE i \in 1..Len(rs) : \A j \in 1..Len(rs) :
                     \/ rs[j].timestamp.n < rs[i].timestamp.n
                     \/ /\ rs[j].timestamp.n = rs[i].timestamp.n
                        /\ IF tb = "low" THEN i <= j ELSE i >= j
             rest == [j \in 1..(Len(rs) - 1) |-> IF j < i THEN rs[j] ELSE rs[j + 1]]
         IN  <<rs[i]>> \o OrderByTimestampDesc(rest, tb)

\* a variant that lets one row too many through
LimitOffByOne(s, n) == SubSeq(s, 1, Min(n + 1, Len(s)))

Limit(s, n) == SubSeq(s, 1, Min(n, Len(s)))

SelectLatest(rs, tb) == Limit(OrderByTimestampDesc(rs, tb), LatestLimit)

\* a variant that maps the pressure column into the humidity field
LatestEntrySwapped(row) ==
    [id |-> row.id,
     timestamp |-> IF row.timestamp.t = "null" THEN None ELSE isoformat(row.timestamp),
     temperature |-> row.temperature,
     humidity |-> row.pressure,
     pressure |-> row.pressure,
     sensor_id |-> row.sensor_id]

\* one entry of the data list
LatestEntry(row) ==
    [id |-> row.id,
     timestamp |-> IF row.timestamp.t = "null" THEN None ELSE isoformat(row.timestamp),
     temperature |-> row.temperature,
     humidity |-> row.humidity,
     pressure |-> row.pressure,
     sensor_id |-> row.sensor_id]

LatestResponse(results) ==
    LET data == [i \in 1..Len(results) |-> LatestEntry(results[i])]
    IN  [kind |-> "latest", status |-> 200, error |-> "", fault |-> "", success |-> TRUE,
         data |-> data, count |-> Len(data)]

get_latest_telemetry(p) ==
    ReadHandler(p, "latest", [tb \in TieBreaks |-> LatestResponse(SelectLatest(rows, tb))])

\* ---- POST /api/telemetry/insert
\* a step of insert_telemetry ends the request: the response is returned and the
\* finally clause runs
Finish(p, r, outcome) ==
    /\ resp' = [body |-> tx[p].body] @@ r
    /\ conn' = [conn EXCEPT ![p] = Finally(outcome)]
    /\ tx' = [tx EXCEPT ![p] = NoTx]
    /\ pc' = [pc EXCEPT ![p] = "idle"]

InsertResponse(row, prior, before) ==
    [kind |-> "insert", status |-> 200, error |-> "", fault |-> "", success |-> TRUE,
     message |-> "Data inserted successfully", id |-> row.id,
     timestamp |-> isoformat(row.timestamp), prior |-> prior, before |-> before]

\* the handler up to the BEGIN that execute() sends first: get_db_connection(),
\* request.get_json(), the parameters
insert_telemetry_begin(p, b, max) ==
    /\ boot = "done"
    /\ pc[p] = "idle"
    /\ seq + Cardinality({q \in Workers : pc[q] = "insert_exec"}) < max
    /\ LET c == get_db_connection(dbUp) IN
       IF c = "none"
       THEN /\ resp' = [body |-> b] @@ ConnectionFailed("insert")
            /\ conn' = [conn EXCEPT ![p] = c]
            /\ UNCHANGED <<pc, tx>>
       ELSE \E legacy \in BOOLEAN, lost \in BOOLEAN :
              LET j == get_json(b, legacy)
                  r == IF j.raise # "" THEN Escaped("insert", j.raise)
                       ELSE IF j.data # "dict" THEN Escaped("insert", "AttributeError")
                       ELSE QueryFailed("insert", "Database insert failed", 1)
              IN  IF j.raise # "" \/ j.data # "dict" \/ lost
                  THEN /\ resp' = [body |-> b] @@ r
                       /\ conn' = [conn EXCEPT ![p] =
                                     Finally(IF r.fault # "" THEN "fault" ELSE "dberror")]
                       /\ UNCHANGED <<pc, tx>>
                  ELSE /\ resp' = NoResp
                       /\ conn' = [conn EXCEPT ![p] = c]
                       /\ tx' = [tx EXCEPT ![p] =
                                   [body |-> b, ts |-> CurrentTimestamp(clock), seen |-> seq,
                                    before |-> returned, args |-> InsertArgs(b), row |-> NoRow]]
                       /\ pc' = [pc EXCEPT ![p] = "insert_exec"]
    /\ UNCHANGED <<boot, dbUp, tableExists, rows, seq, clock, returned, lastIns>>

\* the INSERT itself: the store checks the values, then draws the id
insert_telemetry_exec(p) ==
    /\ pc[p] = "insert_exec"
    /\ IF StatementFails(conn[p], tableExists) \/ ~ColumnTypesOk(tx[p].args)
       THEN /\ Finish(p, QueryFailed("insert", "Database insert failed", 1), "dberror")
            /\ UNCHANGED seq
       ELSE /\ seq' = NextVal(seq)
            /\ tx' = [tx EXCEPT ![p] = [@ EXCEPT !.row = NewRow(seq', tx[p].ts, tx[p].args)]]
            /\ pc' = [pc EXCEPT ![p] = "insert_commit"]
            /\ resp' = NoResp
            /\ UNCHANGED conn
    /\ UNCHANGED <<boot, dbUp, tableExists, rows, clock, returned, lastIns>>

\* fetchone(), conn.commit() and the response
insert_telemetry_commit(p) ==
    /\ pc[p] = "insert_commit"
    /\ IF conn[p] = "lost"
       THEN /\ Finish(p, QueryFailed("insert", "Database insert failed", 2), "dberror")
            /\ rows' = Rollback(rows, tx[p].row)
            /\ UNCHANGED <<returned, lastIns>>
       ELSE /\ Finish(p, InsertResponse(tx[p].row, returned, tx[p].before), "ok")
            /\ rows' = Commit(rows, tx[p].row)
            /\ returned' = returned \cup {tx[p].row.id}
            /\ lastIns' = [tx[p].row EXCEPT !.timestamp = isoformat(tx[p].row.timestamp)]
    /\ UNCHANGED <<boot, dbUp, tableExists, seq, clock>>

\* ---- GET /api/telemetry/stats
RECURSIVE SumOf(_, _)
SumOf(rs, k) == IF rs = <<>> THEN 0 ELSE Head(rs)[k].n + SumOf(Tail(rs), k)

\* AVG(column): NULL when no row has a value, else the mean of the values
Avg(rs, k) ==
    LET HasValue(r) == r[k].t # "null"
        vs == SelectSeq(rs, HasValue)
    IN  IF vs = <<>> THEN None
        ELSE [t |-> "ratio", n |-> SumOf(vs, k), d |-> 2 * Len(vs), s |-> ""]

\* MAX(timestamp)
MaxTimestamp(rs) ==
    IF rs = <<>> THEN None
    ELSE Ts(CHOOSE m \in {rs[i].timestamp.n : i \in 1..Len(rs)} :
              \A i \in 1..Len(rs) : rs[i].timestamp.n <= m)

\* Python truth value of a query result: None and 0.0 are false
Truthy(v) == v.t # "null" /\ ~(v.t \in {"num", "ratio"} /\ v.n = 0)

\* round(x, 2): the nearest hundredth, a tie going to the even one
round2(v) ==
    LET q == (100 * v.n) \div v.d
        r == (100 * v.n) % v.d
        h == IF 2 * r < v.d THEN q
             ELSE IF 2 * r > v.d THEN q + 1
             ELSE IF q % 2 = 0 THEN q ELSE q + 1
    IN  [t |-> "num", n |-> h, d |-> 100, s |-> ""]

\* round(result[i], 2) if result[i] else None
AvgField(v) == IF Truthy(v) THEN round2(v) ELSE None

StatsResponse(rs) ==
    [kind |-> "stats", status |-> 200, error |-> "", fault |-> "", success |-> TRUE,
     total_records |-> Len(rs),
     avg_temperature |-> AvgField(Avg(rs, "temperature")),
     avg_humidity |-> AvgField(Avg(rs, "humidity")),
     avg_pressure |-> AvgField(Avg(rs, "pressure")),
     latest_timestamp |-> IF Truthy(MaxTimestamp(rs)) THEN isoformat(MaxTimestamp(rs)) ELSE None]

get_telemetry_stats(p) ==
    ReadHandler(p, "stats", [tb \in TieBreaks |-> StatsResponse(rows)])

\* ---- the environment of the service
\* the store's clock advances; no more readings than inserts are ever observed
Tick ==
    /\ clock + 1 < MaxInserts
    /\ clock' = clock + 1
    /\ resp' = NoResp
    /\ UNCHANGED <<boot, dbUp, tableExists, rows, seq, pc, conn, tx, returned, lastIns>>

\* the store goes away: the connections that are open are lost
StoreDown ==
    /\ dbUp
    /\ dbUp' = FALSE
    /\ conn' = [k \in DOMAIN conn |-> IF conn[k] = "open" THEN "lost" ELSE conn[k]]
    /\ resp' = NoResp
    /\ UNCHANGED <<boot, tableExists, rows, seq, clock, pc, tx, returned, lastIns>>

StoreUp ==
    /\ ~dbUp
    /\ dbUp' = TRUE
    /\ resp' = NoResp
    /\ UNCHANGED <<boot, tableExists, rows, seq, clock, pc, conn, tx, returned, lastIns>>

Next ==
    \/ create_sample_table
    \/ \E p \in Workers :
         \/ home(p)
         \/ get_latest_telemetry(p)
         \/ \E b \in Bodies : insert_telemetry_begin(p, b, MaxInserts)
         \/ insert_telemetry_exec(p)
         \/ insert_telemetry_commit(p)
         \/ get_telemetry_stats(p)
    \/ Tick
    \/ StoreDown
    \/ StoreUp

Spec == Init /\ [][Next]_vars

\* ---- the service started on a table that earlier inserts left one row short
\* of the latest query's limit; the store stays up and every body is FullBody
Seed == [i \in 1..(LatestLimit - 1) |-> NewRow(i, Ts(0), InsertArgs(FullBody))]

InitSeeded ==
    /\ boot = "start"
    /\ dbUp = TRUE
    /\ tableExists = TRUE
    /\ rows = Seed
    /\ seq = Len(Seed)
    /\ clock = 0
    /\ pc = [p \in Workers |-> "idle"]
    /\ conn = [p \in Workers \cup {Main} |-> "none"]
    /\ tx = [p \in Workers |-> NoTx]
    /\ resp = NoResp
    /\ returned = {}
    /\ lastIns = NoIns

NextSeeded ==
    \/ create_sample_table
    \/ \E p \in Workers :
         \/ get_latest_telemetry(p)
         \/ insert_telemetry_begin(p, FullBody, Len(Seed) + MaxInserts)
         \/ insert_telemetry_exec(p)
         \/ insert_telemetry_commit(p)
    \/ Tick

SpecSeeded == InitSeeded /\ [][NextSeeded]_vars

\* ---- the claims
DataKinds == {"latest", "insert", "stats"}
IsError(r) == r.status >= 400
InsertSucceeded(r) == r.kind = "insert" /\ r.status = 200
LatestSucceeded(r) == r.kind = "latest" /\ r.status = 200
StatsSucceeded(r) == r.kind = "stats" /\ r.status = 200
Idle == \A p \in Workers : pc[p] = "idle"

\* C1: once the bootstrap or a handler has finished, on whatever exit path, it
\* holds no open connection; when every worker is idle no connection is open.
ConnectionsReleased ==
    /\ boot = "done" => conn[Main] = "none"
    /\ \A p \in Workers : pc[p] = "idle" => conn[p] = "none"

\* C1 witness: an insert ended by a fault that is no psycopg2.Error, with no
\* connection left open.
FaultClosedConnection ==
    /\ resp.kind = "insert"
    /\ resp.fault = "AttributeError"
    /\ Idle
    /\ \A k \in DOMAIN conn : conn[k] = "none"

\* C2 as claimed: a successful insert response carries an id greater than every
\* id carried by an insert response returned before it.
ReturnedIdsIncrease ==
    InsertSucceeded(resp) => \A i \in resp.prior : resp.id > i

\* C2 amended: a successful insert response carries an id no earlier response
\* carried, and an id greater than every id carried by a response that had been
\* returned when the request arrived.
ReturnedIdsUnique ==
    InsertSucceeded(resp) =>
        /\ resp.id \notin resp.prior
        /\ \A i \in resp.before : resp.id > i

\* C2 witness: an insert response for a request that arrived after an earlier
\* insert response had been returned.
InsertReturnedAfterOthers ==
    /\ InsertSucceeded(resp)
    /\ resp.before # {}

\* C3 as claimed: total_records is the number of rows, and each average is null
\* exactly when every row's value in the column is null.
AllNull(col) == \A i \in 1..Len(rows) : rows[i][col].t = "null"

StatsNullIffAllNull ==
    StatsSucceeded(resp) =>
        /\ resp.total_records = Len(rows)
        /\ (resp.avg_temperature = None) <=> AllNull("temperature")
        /\ (resp.avg_humidity = None) <=> AllNull("humidity")
        /\ (resp.avg_pressure = None) <=> AllNull("pressure")
        /\ rows = <<>> => resp.latest_timestamp = None

\* C3 witness: stats over a table with a row, with an average reported.
StatsOverRows ==
    /\ StatsSucceeded(resp)
    /\ Len(rows) >= 1
    /\ resp.avg_humidity # None

\* C4: a latest response holds min(10, rows) entries, count is their number,
\* timestamps do not increase down the list, and no row left out is later than
\* a row returned.
LatestIsTopTen ==
    LatestSucceeded(resp) =>
        LET data == resp.data
            ids == {data[i].id : i \in 1..Len(data)}
        IN  /\ Len(data) = Min(10, Len(rows))
            /\ Len(data) <= 10
            /\ resp.count = Len(data)
            /\ Cardinality(ids) = Len(data)
            /\ \A i \in 1..(Len(data) - 1) : data[i].timestamp.n >= data[i + 1].timestamp.n
            /\ \A j \in 1..Len(rows) : \A i \in 1..Len(data) :
                 rows[j].id \notin ids => rows[j].timestamp.n <= data[i].timestamp.n

\* C4 witness: a latest response cut by the limit, over rows of two timestamps.
LatestCutByLimit ==
    /\ LatestSucceeded(resp)
    /\ Len(rows) > 10
    /\ Len(resp.data) = 10
    /\ resp.data[1].timestamp.n > resp.data[10].timestamp.n

\* the entry of a latest response for the last successful insert
HasLastInsert(data) ==
    \E i \in 1..Len(data) :
        /\ data[i].id = lastIns.id
        /\ data[i].timestamp = lastIns.timestamp
        /\ data[i].temperature = lastIns.temperature
        /\ data[i].humidity = lastIns.humidity
        /\ data[i].pressure = lastIns.pressure
        /\ data[i].sensor_id = lastIns.sensor_id

\* C5 as claimed: a latest response that follows a successful insert, with no
\* insert committed in between, lists the inserted reading.
InsertThenLatest ==
    (LatestSucceeded(resp) /\ lastIns.id # 0) => HasLastInsert(resp.data)

\* rows other than the last insert's that are not earlier than it
NotEarlier ==
    {j \in 1..Len(rows) : rows[j].id # lastIns.id /\ rows[j].timestamp.n >= lastIns.timestamp.n}

\* C5 amended: it lists the inserted reading when fewer than 10 other rows have
\* a timestamp greater than or equal to the inserted row's.
InsertThenLatestWithinLimit ==
    (LatestSucceeded(resp) /\ lastIns.id # 0 /\ Cardinality(NotEarlier) < 10)
        => HasLastInsert(resp.data)

\* C5 witness: a latest response over more than 10 rows that lists the reading
\* inserted just before.
LatestListsInsert ==
    /\ LatestSucceeded(resp)
    /\ lastIns.id # 0
    /\ Len(rows) > 10
    /\ Cardinality(NotEarlier) < 10
    /\ HasLastInsert(resp.data)

\* C6: while the store is unreachable every data endpoint answers 500 with an
\* error field and no escaping exception; a refused connection issues no query;
\* a failed query is answered the same way; health answers healthy; the worker
\* that answered is free for the next request.
StoreFailureAnswered ==
    /\ (resp.kind \in DataKinds /\ ~dbUp) =>
          /\ resp.status = 500
          /\ resp.error # ""
          /\ resp.fault = ""
    /\ (resp.kind \in DataKinds /\ IsError(resp) /\ resp.cause = "connect") =>
          /\ resp.status = 500
          /\ resp.error # ""
          /\ resp.fault = ""
          /\ resp.queries = 0
    /\ (resp.kind \in DataKinds /\ IsError(resp) /\ resp.cause = "query") =>
          /\ resp.status = 500
          /\ resp.error # ""
          /\ resp.fault = ""
    /\ resp.kind = "health" => (resp.status = 200 /\ resp.state = "healthy")
    /\ resp.kind # "none" => \E p \in Workers : pc[p] = "idle"

\* C6 witness: an insert refused by an unreachable store.
InsertRefusedByStore ==
    /\ resp.kind = "insert"
    /\ ~dbUp
    /\ resp.status = 500
    /\ resp.cause = "connect"
    /\ resp.body = FullBody

\* C7 as claimed: an insert whose body is missing or is no JSON object is
\* answered 400 (the store being reachable).
BadBodyIsClientFault ==
    (resp.kind = "insert" /\ resp.body.kind # "object" /\ resp.cause # "connect")
        => resp.status = 400

\* C8 as claimed: in the table, a row with a smaller id has no later timestamp.
TimestampsFollowIds ==
    \A i, j \in 1..Len(rows) :
        rows[i].id < rows[j].id => rows[i].timestamp.n <= rows[j].timestamp.n

\* rows in the table or about to be committed
Pending == {tx[p].row : p \in {q \in Workers : pc[q] = "insert_commit"}}
Stored == {rows[i] : i \in 1..Len(rows)}

\* C8 amended: a row has no earlier timestamp than any row that had its id
\* before the row's own transaction began.  Checked when the row is about to be
\* committed, against every row in the table or about to be committed; rows
\* never change afterwards.
TimestampsFollowIdsInSequence ==
    \A p \in Workers : pc[p] = "insert_commit" =>
        \A r \in Stored \cup Pending :
            r.id <= tx[p].seen => r.timestamp.n <= tx[p].row.timestamp.n

\* C8 witness: a row about to be committed after a row of an earlier timestamp
\* that had its id before the transaction began.
LaterRowAfterEarlier ==
    \E p \in Workers :
        /\ pc[p] = "insert_commit"
        /\ \E r \in Stored : r.id <= tx[p].seen /\ r.timestamp.n < tx[p].row.timestamp.n

\* the row of the table with the given id
RowOf(id) == CHOOSE r \in Stored : r.id = id

\* C9: a successful insert stores sensor_id "default" when the body has none,
\* the body's sensor_id otherwise, and null for each absent measurement.
InsertStoresDefaults ==
    InsertSucceeded(resp) =>
        /\ \E r \in Stored : r.id = resp.id
        /\ RowOf(resp.id).sensor_id =
              (IF resp.body.sensor_id = Absent THEN Str("default") ELSE resp.body.sensor_id)
        /\ \A k \in {"temperature", "humidity", "pressure"} :
              IF resp.body[k] = Absent THEN RowOf(resp.id)[k] = None
              ELSE RowOf(resp.id)[k] = resp.body[k]

\* C9 witness: a successful insert of the empty object.
EmptyObjectInserted ==
    /\ InsertSucceeded(resp)
    /\ resp.body = EmptyBody
    /\ RowOf(resp.id).sensor_id = Str("default")

\* C10: a step that returns a successful insert response appends exactly the
\* row of that response and keeps the rows before it; every other step, an
\* insert that ends in an error or a fault included, leaves the table as it is.
TableChangesOnlyByInsert ==
    [][IF InsertSucceeded(resp') /\ (\E p \in Workers : pc[p] = "insert_commit" /\ pc'[p] = "idle")
       THEN /\ Len(rows') = Len(rows) + 1
            /\ SubSeq(rows', 1, Len(rows)) = rows
            /\ rows'[Len(rows')].id = resp'.id
       ELSE rows' = rows]_vars

\* C10 witness: an insert whose commit failed, answered with an error, over a
\* table that holds a row.
CommitFailedOverRows ==
    /\ resp.kind = "insert"
    /\ resp.status = 500
    /\ resp.queries = 2
    /\ Len(rows) >= 1

====
